---------------------------- MODULE Spec2Model ----------------------------
(***************************************************************************)
(* Model of dv-visualize-music: the two normalisation scripts              *)
(* src/process_midi.py and src/process_musicxml.py.                        *)
(*                                                                         *)
(* Text (pitch names) is a sequence of one-character strings, so that      *)
(* slicing and the parse of the last character are computed, not assumed.  *)
(* Times are whole ticks of half a second (0.0 s = 0, 1.5 s = 3, ...).     *)
(* An optional integer (Python int-or-None) is the empty set or {n}.       *)
(***************************************************************************)
EXTENDS Integers, Sequences, FiniteSets, TLC

VARIABLES
    script,         \* which script's main() runs: "midi" or "musicxml"
    pc,             \* position in main()
    raw_dir,        \* the files of RAW_DATA_DIR
    file_path,      \* main's file_path; NoPath for None
    midi_data,      \* process_midi.main: the PrettyMIDI object's instruments
    score,          \* process_musicxml.main: the parsed score's parts
    beat_times,     \* process_midi.main
    measure_times,  \* process_midi.main
    all_note_data,  \* main's all_note_data
    processed_dir,  \* the files written to PROCESSED_DATA_DIR
    console,        \* what was printed, in order
    raised,         \* where the exception caught at main's except was raised
    phases,         \* the phases main has entered, in order
    note_name,      \* extract_note_data's local note_name
    note_simple,    \* extract_note_data's local note_simple
    octave,         \* extract_note_data's local octave
    pitch           \* the note.pitch note_name was made from, if any

vars == <<script, pc, raw_dir, file_path, midi_data, score, beat_times,
          measure_times, all_note_data, processed_dir, console, raised,
          phases, note_name, note_simple, octave, pitch>>

mainVars == <<script, pc, raw_dir, file_path, midi_data, score, beat_times,
              measure_times, all_note_data, processed_dir, console, raised,
              phases>>

splitVars == <<note_name, note_simple, octave, pitch>>

-----------------------------------------------------------------------------
(* Bounds *)

MaxFiles == 2     \* files in the raw directory
MaxNotes == 1     \* notes of a parsed MIDI file, over all its tracks
MaxGrid == 1      \* boundaries get_beats / get_downbeats return in a run of main
MaxLen == 3       \* boundaries of a grid handed to extract_note_data directly
MaxItems == 2     \* notes, chords and rests of a parsed score, over all its parts
MaxChord == 2     \* pitches of a chord
MaxTok == 3       \* characters of a pitch token

-----------------------------------------------------------------------------
(* Values *)

None == "None"
NoPath == <<>>
NoInt == {}
Some(n) == {n}

\* Time stamps in half-second ticks: 0.0, 1.5, 2.0, 4.0 and 5.0 seconds.
Times == {0, 3, 4, 8, 10}

RECURSIVE SeqsUpTo(_, _)
SeqsUpTo(S, n) ==
    IF n = 0 THEN {<<>>}
    ELSE LET shorter == SeqsUpTo(S, n - 1)
         IN  shorter \cup {Append(s, x) : s \in {t \in shorter : Len(t) = n - 1}, x \in S}

IsSorted(s) == \A i \in 1..(Len(s) - 1) : s[i] <= s[i + 1]

\* A BoundarySequence: ascending, duplicates allowed, possibly empty.
SortedSeqs(n) == {s \in SeqsUpTo(Times, n) : IsSorted(s)}

RECURSIVE Concat(_)
Concat(ss) == IF ss = <<>> THEN <<>> ELSE Head(ss) \o Concat(Tail(ss))

\* A list holding the elements of a set, as Path.glob yields them.
ListOf(S) == CHOOSE s \in [1..Cardinality(S) -> S] : {s[i] : i \in DOMAIN s} = S

-----------------------------------------------------------------------------
(* Text: decimal digits, int() of one character, str() of an integer *)

Digits == <<"0", "1", "2", "3", "4", "5", "6", "7", "8", "9">>

IsDigit(c) == \E d \in 0..9 : Digits[d + 1] = c

DigitValue(c) == CHOOSE d \in 0..9 : Digits[d + 1] = c

RECURSIVE StrNat(_)
StrNat(n) == IF n < 10 THEN <<Digits[n + 1]>> ELSE StrNat(n \div 10) \o <<Digits[(n % 10) + 1]>>

\* Python's str(n) for an integer n.
Str(n) == IF n < 0 THEN <<"-">> \o StrNat(0 - n) ELSE StrNat(n)

-----------------------------------------------------------------------------
(* process_midi.py: pitch naming and the split of a pitch name *)

\* pretty_midi's table of pitch-class names.
semis == << <<"C">>, <<"C", "#">>, <<"D">>, <<"D", "#">>, <<"E">>, <<"F">>,
            <<"F", "#">>, <<"G">>, <<"G", "#">>, <<"A">>, <<"A", "#">>, <<"B">> >>

\* pretty_midi.note_number_to_name: pitch class, then the octave note//12 - 1.
note_number_to_name(p) == semis[(p % 12) + 1] \o Str((p \div 12) - 1)

\* note_name[:-1]: everything except the last character.
SliceSimple(name) == SubSeq(name, 1, Len(name) - 1)

\* int(note_name[-1]) under try / except ValueError: the digit, or None.
ParseOctave(name) ==
    IF IsDigit(name[Len(name)]) THEN Some(DigitValue(name[Len(name)])) ELSE NoInt

\* Lines 59-68 for one name.  note_name[-1] of the empty string raises
\* IndexError, which except ValueError does not catch.
SplitPitch(name) ==
    IF name = <<>>
    THEN [raised |-> "IndexError", note_simple |-> SliceSimple(name), octave |-> NoInt]
    ELSE [raised |-> None, note_simple |-> SliceSimple(name), octave |-> ParseOctave(name)]

-----------------------------------------------------------------------------
(* process_midi.py: the rulers *)

\* bisect.bisect_right(a, x): binary search, going right on equality.
RECURSIVE BisectRightLoop(_, _, _, _)
BisectRightLoop(a, x, lo, hi) ==
    IF lo < hi
    THEN LET mid == (lo + hi) \div 2
         IN  IF x < a[mid + 1]
             THEN BisectRightLoop(a, x, lo, mid)
             ELSE BisectRightLoop(a, x, mid + 1, hi)
    ELSE lo

\* The bug of searching left on equality (bisect_left).
RECURSIVE BisectLeftLoop(_, _, _, _)
BisectLeftLoop(a, x, lo, hi) ==
    IF lo < hi
    THEN LET mid == (lo + hi) \div 2
         IN  IF x <= a[mid + 1]
             THEN BisectLeftLoop(a, x, lo, mid)
             ELSE BisectLeftLoop(a, x, mid + 1, hi)
    ELSE lo

bisect_left(a, x) == BisectLeftLoop(a, x, 0, Len(a))

\* The bug of searching only up to the last boundary (an index into the list).
bisect_clamped(a, x) == BisectRightLoop(a, x, 0, IF Len(a) = 0 THEN 0 ELSE Len(a) - 1)

bisect_right(a, x) == BisectRightLoop(a, x, 0, Len(a))

-----------------------------------------------------------------------------
(* process_midi.py: extract_note_data *)

\* pretty_midi.program_to_instrument_name, for the programs of the model.
program_to_instrument_name(program) ==
    IF program = 33 THEN "Electric Bass (finger)" ELSE "Acoustic Grand Piano"

\* The bug of reading the measure from the beat ruler and the beat from the
\* measure ruler.
NoteDataSwapped(i, instrument, note, beats, measures) ==
    LET name == note_number_to_name(note.pitch)
        split == SplitPitch(name)
    IN  [track_index |-> i,
         track_name |-> instrument.name,
         instrument |-> program_to_instrument_name(instrument.program),
         is_drum |-> instrument.is_drum,
         pitch_num |-> note.pitch,
         note_name |-> name,
         note_simple |-> split.note_simple,
         octave |-> split.octave,
         measure_name |-> bisect_right(beats, note.start),
         beat_num |-> bisect_right(measures, note.start),
         start_time_sec |-> note.start,
         end_time_sec |-> note.end,
         duration_sec |-> note.end - note.start,
         velocity |-> note.velocity]

\* Lines 50-85: the record of one note of track i (0-based).
NoteData(i, instrument, note, beats, measures) ==
    LET name == note_number_to_name(note.pitch)
        split == SplitPitch(name)
    IN  [track_index |-> i,
         track_name |-> instrument.name,
         instrument |-> program_to_instrument_name(instrument.program),
         is_drum |-> instrument.is_drum,
         pitch_num |-> note.pitch,
         note_name |-> name,
         note_simple |-> split.note_simple,
         octave |-> split.octave,
         measure_name |-> bisect_right(measures, note.start),
         beat_num |-> bisect_right(beats, note.start),
         start_time_sec |-> note.start,
         end_time_sec |-> note.end,
         duration_sec |-> note.end - note.start,
         velocity |-> note.velocity]

\* Lines 48-88: the inner loop over one instrument's notes.
InstrumentNotes(i, instrument, beats, measures) ==
    [k \in 1..Len(instrument.notes) |->
        NoteData(i, instrument, instrument.notes[k], beats, measures)]

\* Lines 38-90: the outer loop, appending in track order.
extract_note_data(data, beats, measures) ==
    Concat([k \in 1..Len(data) |-> InstrumentNotes(k - 1, data[k], beats, measures)])

-----------------------------------------------------------------------------
(* process_musicxml.py: extract_musicxml_data *)

\* music21's Pitch.nameWithOctave: the name, then the octave when there is one.
nameWithOctave(p) ==
    IF p.octave = NoInt THEN p.name ELSE p.name \o Str(CHOOSE n \in p.octave : TRUE)

\* Lines 57-67 and 74-84: one output row, for one pitch of an item.
PitchRow(i, part, item, type, p) ==
    [part_index |-> i,
     part_name |-> part.partName,
     type |-> type,
     pitch_name |-> nameWithOctave(p),
     pitch_simple |-> p.name,
     octave |-> p.octave,
     beat |-> item.beat,
     duration_beats |-> item.quarterLength,
     offset_beats |-> item.offset]

\* The bug of emitting one row per chord, for its first pitch.
ItemDataFirstPitch(i, part, item) ==
    (IF item.kind = "Note"
     THEN <<PitchRow(i, part, item, "Note", item.pitches[1])>>
     ELSE <<>>)
    \o
    (IF item.kind = "Chord" /\ item.pitches # <<>>
     THEN <<PitchRow(i, part, item, "Chord Note", item.pitches[1])>>
     ELSE <<>>)

\* Lines 53-85: the rows of one item: the two isinstance tests, in order.
ItemData(i, part, item) ==
    (IF item.kind = "Note"
     THEN <<PitchRow(i, part, item, "Note", item.pitches[1])>>
     ELSE <<>>)
    \o
    (IF item.kind = "Chord"
     THEN [j \in 1..Len(item.pitches) |->
              PitchRow(i, part, item, "Chord Note", item.pitches[j])]
     ELSE <<>>)

\* Lines 50-85: the inner loop over part.flatten().notesAndRests.
PartData(i, part) ==
    Concat([k \in 1..Len(part.items) |-> ItemData(i, part, part.items[k])])

\* Lines 43-88: the outer loop over score.parts, appending in part order.
extract_musicxml_data(sc) ==
    Concat([k \in 1..Len(sc) |-> PartData(k - 1, sc[k])])

-----------------------------------------------------------------------------
(* File discovery *)

\* File names as their dot-separated components: song.mid is <<"song", "mid">>.
FileNames == { <<"song", "mid">>, <<"song", "midi">>, <<"song", "mid", "bak">>,
               <<"score", "musicxml">>, <<"score", "mxl">>, <<"score", "xml">> }

\* A component that begins with the letters mid.
StartsWithMid(c) == c \in {"mid", "midi"}

\* A component that ends with the letters xml.
EndsWithXml(c) == c \in {"xml", "musicxml"}

\* search_dir.glob("*.mid*"): a dot followed by mid somewhere in the name.
glob_mid(dir) == {f \in dir : \E i \in 2..Len(f) : StartsWithMid(f[i])}

\* search_dir.glob("*." + ext): the name ends with a dot and ext.
glob_ext(dir, ext) == {f \in dir : Len(f) >= 2 /\ f[Len(f)] = ext}

\* The bug of a pattern without its dot ("*xml"), which also matches .musicxml.
glob_tail_xml(dir) == {f \in dir : Len(f) >= 2 /\ EndsWithXml(f[Len(f)])}

\* Lines 17-32 of process_midi.py.
find_midi_file(dir) ==
    LET midi_files == ListOf(glob_mid(dir))
    IN  IF Len(midi_files) = 0
        THEN [path |-> NoPath, out |-> <<"Searching", "ERROR: no file found">>]
        ELSE IF Len(midi_files) > 1
        THEN [path |-> NoPath, out |-> <<"Searching", "ERROR: several files found">>]
        ELSE [path |-> midi_files[1], out |-> <<"Searching", "Found one file">>]

\* The bug of listing the third pattern as "*xml".
xml_files_loose(dir) ==
    ListOf(glob_ext(dir, "musicxml")) \o ListOf(glob_ext(dir, "mxl"))
        \o ListOf(glob_tail_xml(dir))

\* Lines 17-19 of process_musicxml.py: the three globs, one list.
xml_files(dir) ==
    ListOf(glob_ext(dir, "musicxml")) \o ListOf(glob_ext(dir, "mxl"))
        \o ListOf(glob_ext(dir, "xml"))

\* Lines 21-34 of process_musicxml.py.
find_musicxml_file(dir) ==
    LET files == xml_files(dir)
    IN  IF Len(files) = 0
        THEN [path |-> NoPath, out |-> <<"Searching", "ERROR: no file found">>]
        ELSE IF Len(files) > 1
        THEN [path |-> NoPath, out |-> <<"Searching", "ERROR: several files found">>]
        ELSE [path |-> files[1], out |-> <<"Searching", "Found one file">>]

\* Python's truth value of main's file_path: None is false, a Path is true.
Truthy(path) == path # NoPath

-----------------------------------------------------------------------------
(* The table *)

\* pd.DataFrame(list of dicts): the columns are the union of the keys, and a
\* key a row lacks is NaN in that row.
DataFrame(rows) ==
    LET columns == UNION {DOMAIN rows[k] : k \in 1..Len(rows)}
    IN  [k \in 1..Len(rows) |->
            [c \in columns |-> IF c \in DOMAIN rows[k] THEN rows[k][c] ELSE "NaN"]]

\* pd.to_numeric(errors="coerce") of one cell: a number stays, the rest is NaN.
to_numeric(v) == IF v \in Int THEN v ELSE "NaN"

\* clean_dataframe: the three numeric columns, coerced.
clean_dataframe(df) ==
    [k \in 1..Len(df) |->
        [df[k] EXCEPT !.beat = to_numeric(@),
                      !.duration_beats = to_numeric(@),
                      !.offset_beats = to_numeric(@)]]

\* The name main gives the output file.
OutputName(s) ==
    IF s = "midi" THEN "rhcp_dosed_notes.csv" ELSE "rhcp-dosed_musicmxl_notes.csv"

\* save_data_to_csv: the file written under PROCESSED_DATA_DIR.
save_data_to_csv(dir, df, file_name) ==
    {f \in dir : f.name # file_name} \cup {[name |-> file_name, rows |-> df]}

-----------------------------------------------------------------------------
(* What the parser collaborators can return *)

MidiNotes(p) == {[pitch |-> p, start |-> t, end |-> t + 1, velocity |-> 100] : t \in Times}

Bass(notes) == [program |-> 33, name |-> "Bass", is_drum |-> FALSE, notes |-> notes]

Drums(notes) == [program |-> 0, name |-> "Drums", is_drum |-> TRUE, notes |-> notes]

\* PrettyMIDI(...).instruments: no track, one track or two, MaxNotes notes in all.
MidiScores ==
    {<<>>}
    \cup {<<Bass(s)>> : s \in SeqsUpTo(MidiNotes(61), MaxNotes)}
    \cup {<<Bass(s), Drums(t)>> :
            <<s, t>> \in {st \in SeqsUpTo(MidiNotes(61), MaxNotes)
                                    \X SeqsUpTo(MidiNotes(36), MaxNotes) :
                             Len(st[1]) + Len(st[2]) <= MaxNotes}}

\* get_beats() and get_downbeats() in a run of main: ascending times among
\* 0.0, 2.0 and 4.0 s.
Grids == {s \in SortedSeqs(MaxGrid) : \A i \in 1..Len(s) : s[i] \in {0, 4, 8}}

\* The k-th pitch of the model: C4, E4, G#4, C4, ...
PitchAt(k) == [name |-> semis[((4 * (k - 1)) % 12) + 1], octave |-> Some(4)]

Timings == {[offset |-> 0, beat |-> 1, quarterLength |-> 1],
            [offset |-> 2, beat |-> 3, quarterLength |-> 2]}

Item(kind, pitches, t) ==
    [kind |-> kind, pitches |-> pitches, offset |-> t.offset, beat |-> t.beat,
     quarterLength |-> t.quarterLength]

\* The items of notesAndRests: rests, single notes, chords of 0..MaxChord pitches.
Items ==
    {Item("Rest", <<>>, t) : t \in Timings}
    \cup {Item("Note", <<PitchAt(k)>>, t) : k \in 1..2, t \in Timings}
    \cup {Item("Chord", [j \in 1..n |-> PitchAt(j)], t) : n \in 0..MaxChord, t \in Timings}

Part(name, items) == [partName |-> name, items |-> items]

\* converter.parse(...).parts: no part, one part or two, MaxItems items in all.
XmlScores ==
    {<<>>}
    \cup {<<Part("Guitar", s)>> : s \in SeqsUpTo(Items, MaxItems)}
    \cup {<<Part("Guitar", s), Part("Bass", t)>> :
            <<s, t>> \in {st \in SeqsUpTo(Items, MaxItems) \X SeqsUpTo(Items, MaxItems) :
                             Len(st[1]) + Len(st[2]) <= MaxItems}}

-----------------------------------------------------------------------------
(* main() of either script *)

SplitIdle ==
    /\ note_name = <<>>
    /\ note_simple = <<>>
    /\ octave = NoInt
    /\ pitch = NoInt

Init ==
    /\ script \in {"midi", "musicxml"}
    /\ pc = "find"
    /\ raw_dir \in {d \in SUBSET FileNames : Cardinality(d) <= MaxFiles}
    /\ file_path = NoPath
    /\ midi_data = <<>>
    /\ score = <<>>
    /\ beat_times = <<>>
    /\ measure_times = <<>>
    /\ all_note_data = <<>>
    /\ processed_dir = {}
    /\ console = <<>>
    /\ raised = None
    /\ phases = <<>>
    /\ SplitIdle

\* The exception handler of main: the error is printed and main returns.
Except(where) ==
    /\ raised' = where
    /\ console' = Append(console, "An error occurred while loading the file")
    /\ pc' = "done"

\* process_midi.py 117-119, process_musicxml.py 128-131 and 161-163.
FindFile ==
    /\ pc = "find"
    /\ LET found == IF script = "midi" THEN find_midi_file(raw_dir)
                    ELSE find_musicxml_file(raw_dir)
       IN  /\ file_path' = found.path
           /\ pc' = IF Truthy(found.path) THEN "parse" ELSE "done"
           /\ console' = console \o found.out \o
                (IF script = "musicxml" /\ ~Truthy(found.path)
                 THEN <<"TEST FAILED">> ELSE <<>>)
    /\ phases' = Append(phases, "discover")
    /\ UNCHANGED <<script, raw_dir, midi_data, score, beat_times, measure_times,
                   all_note_data, processed_dir, raised>>
    /\ UNCHANGED splitVars

\* process_midi.py 121-122: pretty_midi.PrettyMIDI returns.
ParseMidi ==
    /\ pc = "parse" /\ script = "midi"
    /\ midi_data' \in MidiScores
    /\ console' = Append(console, "File loaded successfully")
    /\ pc' = "get_beats"
    /\ phases' = Append(phases, "parse")
    /\ UNCHANGED <<script, raw_dir, file_path, score, beat_times, measure_times,
                   all_note_data, processed_dir, raised>>
    /\ UNCHANGED splitVars

\* process_musicxml.py 135-138: converter.parse returns.
ParseXml ==
    /\ pc = "parse" /\ script = "musicxml"
    /\ score' \in XmlScores
    /\ console' = Append(console, "File loaded successfully")
    /\ pc' = "extract"
    /\ phases' = Append(phases, "parse")
    /\ UNCHANGED <<script, raw_dir, file_path, midi_data, beat_times, measure_times,
                   all_note_data, processed_dir, raised>>
    /\ UNCHANGED splitVars

\* The parser raises: process_midi.py 152-153, process_musicxml.py 157-159.
ParseFails ==
    /\ pc = "parse"
    /\ Except("parse")
    /\ phases' = Append(phases, "parse")
    /\ UNCHANGED <<script, raw_dir, file_path, midi_data, score, beat_times,
                   measure_times, all_note_data, processed_dir>>
    /\ UNCHANGED splitVars

\* process_midi.py 124-127: get_beats returns.
GetBeats ==
    /\ pc = "get_beats"
    /\ beat_times' \in Grids
    /\ console' = Append(console, "Analyzing Rhythm Grid")
    /\ pc' = "get_downbeats"
    /\ phases' = Append(phases, "grid")
    /\ UNCHANGED <<script, raw_dir, file_path, midi_data, score, measure_times,
                   all_note_data, processed_dir, raised>>
    /\ UNCHANGED splitVars

\* get_beats raises, and main's handler catches it.
GetBeatsFails ==
    /\ pc = "get_beats"
    /\ Except("get_beats")
    /\ phases' = Append(phases, "grid")
    /\ UNCHANGED <<script, raw_dir, file_path, midi_data, score, beat_times,
                   measure_times, all_note_data, processed_dir>>
    /\ UNCHANGED splitVars

\* process_midi.py 130-137: get_downbeats returns, and the grid is printed.
GetDownbeats ==
    /\ pc = "get_downbeats"
    /\ measure_times' \in Grids
    /\ console' = Append(console, "Found beats and measures")
    /\ pc' = "extract"
    /\ UNCHANGED <<script, raw_dir, file_path, midi_data, score, beat_times,
                   all_note_data, processed_dir, raised, phases>>
    /\ UNCHANGED splitVars

\* get_downbeats raises, and main's handler catches it.
GetDownbeatsFails ==
    /\ pc = "get_downbeats"
    /\ Except("get_downbeats")
    /\ UNCHANGED <<script, raw_dir, file_path, midi_data, score, beat_times,
                   measure_times, all_note_data, processed_dir, phases>>
    /\ UNCHANGED splitVars

\* The bug of saving whatever was extracted.
AfterExtractAlways(notes) == "save"

\* process_midi.py 141, process_musicxml.py 142: if all_note_data.
AfterExtract(notes) == IF notes # <<>> THEN "save" ELSE "done"

\* process_midi.py 139-141, process_musicxml.py 140-142.
ExtractNotes ==
    /\ pc = "extract"
    /\ all_note_data' = IF script = "midi"
                        THEN extract_note_data(midi_data, beat_times, measure_times)
                        ELSE extract_musicxml_data(score)
    /\ pc' = AfterExtract(all_note_data')
    /\ console' = Append(console, "Extracted notes")
    /\ phases' = Append(phases, "extract")
    /\ UNCHANGED <<script, raw_dir, file_path, midi_data, score, beat_times,
                   measure_times, processed_dir, raised>>
    /\ UNCHANGED splitVars

\* process_midi.py 143-150, process_musicxml.py 145-155: the table is written.
SaveTable ==
    /\ pc = "save"
    /\ LET df == IF script = "midi" THEN DataFrame(all_note_data)
                 ELSE clean_dataframe(DataFrame(all_note_data))
       IN  processed_dir' = save_data_to_csv(processed_dir, df, OutputName(script))
    /\ console' = console \o <<"Saving", "Success">>
    /\ pc' = "done"
    /\ phases' = Append(phases, "save")
    /\ UNCHANGED <<script, raw_dir, file_path, midi_data, score, beat_times,
                   measure_times, all_note_data, raised>>
    /\ UNCHANGED splitVars

\* mkdir or to_csv raises, and main's handler catches it.
SaveFails ==
    /\ pc = "save"
    /\ raised' = "save"
    /\ console' = console \o <<"Saving", "An error occurred while loading the file">>
    /\ pc' = "done"
    /\ phases' = Append(phases, "save")
    /\ UNCHANGED <<script, raw_dir, file_path, midi_data, score, beat_times,
                   measure_times, all_note_data, processed_dir>>
    /\ UNCHANGED splitVars

Next ==
    \/ FindFile
    \/ ParseMidi
    \/ ParseXml
    \/ ParseFails
    \/ GetBeats
    \/ GetBeatsFails
    \/ GetDownbeats
    \/ GetDownbeatsFails
    \/ ExtractNotes
    \/ SaveTable
    \/ SaveFails

Spec == Init /\ [][Next]_vars

-----------------------------------------------------------------------------
(* extract_note_data called with one note and two rulers of up to MaxLen      *)
(* boundaries: main at line 139, after a parse and a grid of that size.       *)

InitExtract ==
    /\ script = "midi"
    /\ pc = "extract"
    /\ raw_dir = {<<"song", "mid">>}
    /\ file_path = <<"song", "mid">>
    /\ midi_data \in {<<Bass(<<n>>)>> : n \in MidiNotes(61)}
    /\ score = <<>>
    /\ beat_times \in SortedSeqs(MaxLen)
    /\ measure_times \in SortedSeqs(MaxLen)
    /\ all_note_data = <<>>
    /\ processed_dir = {}
    /\ console = <<"Searching", "Found one file", "File loaded successfully",
                   "Analyzing Rhythm Grid", "Found beats and measures">>
    /\ raised = None
    /\ phases = <<"discover", "parse", "grid">>
    /\ SplitIdle

NextExtract == ExtractNotes

SpecExtract == InitExtract /\ [][NextExtract]_vars

-----------------------------------------------------------------------------
(* Lines 57-68 of extract_note_data on one pitch name: the name of a MIDI     *)
(* pitch number, or any token of up to MaxTok characters.                     *)

TokenChars == {"C", "#", "-", "4", "1", "K"}

Tokens == SeqsUpTo(TokenChars, MaxTok)

MidiPitches == 0..127

InitSplit ==
    /\ script = "midi"
    /\ pc = "split"
    /\ raw_dir = {}
    /\ file_path = NoPath
    /\ midi_data = <<>>
    /\ score = <<>>
    /\ beat_times = <<>>
    /\ measure_times = <<>>
    /\ all_note_data = <<>>
    /\ processed_dir = {}
    /\ console = <<>>
    /\ raised = None
    /\ phases = <<>>
    /\ note_simple = <<>>
    /\ octave = NoInt
    /\ \/ /\ pitch = NoInt
          /\ note_name \in Tokens
       \/ /\ pitch \in {Some(p) : p \in MidiPitches}
          /\ note_name = note_number_to_name(CHOOSE p \in pitch : TRUE)

\* Lines 59-68: the slice, then the parse of the last character.
SplitName ==
    /\ pc = "split"
    /\ LET split == SplitPitch(note_name)
       IN  /\ note_simple' = split.note_simple
           /\ octave' = split.octave
           /\ raised' = split.raised
           /\ pc' = IF split.raised = None THEN "split_done" ELSE "split_raised"
    /\ UNCHANGED <<script, raw_dir, file_path, midi_data, score, beat_times,
                   measure_times, all_note_data, processed_dir, console, phases,
                   note_name, pitch>>

NextSplit == SplitName

SpecSplit == InitSplit /\ [][NextSplit]_vars

-----------------------------------------------------------------------------
(* Properties *)

Range(s) == {s[i] : i \in DOMAIN s}

Extracted == "extract" \in Range(phases)

\* The number of boundaries at or before onset t.
CountLE(B, t) == Cardinality({i \in 1..Len(B) : B[i] <= t})

\* idx splits B: everything up to idx is <= t, the boundary after it is > t.
FirstGreater(B, t, idx) ==
    /\ idx \in 0..Len(B)
    /\ \A j \in 1..idx : B[j] <= t
    /\ idx < Len(B) => B[idx + 1] > t

\* Under SpecExtract: the one note handed to extract_note_data, and its record.
TheNote == midi_data[1].notes[1]

TheRow == all_note_data[1]

\* C1: the measure index and the beat index of a note with onset t are the
\* numbers of measure and beat boundaries <= t (the index of the first boundary
\* strictly greater than t), and 0 when the boundary sequence is empty.
C1_IndexCountsBoundaries ==
    Extracted =>
        /\ Len(all_note_data) = 1
        /\ TheRow.measure_name = CountLE(measure_times, TheNote.start)
        /\ TheRow.beat_num = CountLE(beat_times, TheNote.start)
        /\ FirstGreater(measure_times, TheNote.start, TheRow.measure_name)
        /\ FirstGreater(beat_times, TheNote.start, TheRow.beat_num)
        /\ measure_times = <<>> => TheRow.measure_name = 0
        /\ beat_times = <<>> => TheRow.beat_num = 0

\* A note between two measures, on a ruler of beats that differs, and no beats
\* at all for another.
C1_Witness ==
    /\ Extracted
    /\ measure_times = <<0, 8>>
    /\ beat_times = <<0, 4, 8>>
    /\ TheNote.start = 4
    /\ TheRow.measure_name = 1
    /\ TheRow.beat_num = 2

\* C2: a note whose onset is exactly the boundary at position j (1-based, so
\* B[k] with k = j - 1) gets an index >= j = k + 1, duplicates included.
C2_OnBoundaryGoesRight ==
    Extracted =>
        /\ \A j \in 1..Len(measure_times) :
              measure_times[j] = TheNote.start => TheRow.measure_name >= j
        /\ \A j \in 1..Len(beat_times) :
              beat_times[j] = TheNote.start => TheRow.beat_num >= j

\* An onset on a duplicated boundary, counted past both copies.
C2_Witness ==
    /\ Extracted
    /\ measure_times = <<3, 3, 8>>
    /\ TheNote.start = 3
    /\ TheRow.measure_name = 2

\* C3: an onset at or after the last boundary gets the index Len(B); every
\* index is in 0..Len(B) and nothing is raised; with measures at 0.0, 2.0 and
\* 4.0 s the onsets 1.5, 4.0 and 5.0 s get the indices 1, 3 and 3.
C3_LastBoundaryAndRange ==
    Extracted =>
        /\ raised = None
        /\ Len(all_note_data) = 1
        /\ TheRow.measure_name \in 0..Len(measure_times)
        /\ TheRow.beat_num \in 0..Len(beat_times)
        /\ (measure_times # <<>> /\ TheNote.start >= measure_times[Len(measure_times)])
              => TheRow.measure_name = Len(measure_times)
        /\ (beat_times # <<>> /\ TheNote.start >= beat_times[Len(beat_times)])
              => TheRow.beat_num = Len(beat_times)
        /\ measure_times = <<0, 4, 8>> =>
              /\ TheNote.start = 3 => TheRow.measure_name = 1
              /\ TheNote.start = 8 => TheRow.measure_name = 3
              /\ TheNote.start = 10 => TheRow.measure_name = 3

\* The onset 5.0 s past the last of the measures 0.0, 2.0, 4.0 s.
C3_Witness ==
    /\ Extracted
    /\ measure_times = <<0, 4, 8>>
    /\ TheNote.start = 10
    /\ TheRow.measure_name = 3

\* A token (one character at least) whose last character is no decimal digit.
NoTrailingDigit(name) == name # <<>> /\ ~IsDigit(name[Len(name)])

RowsOf(item) ==
    IF item.kind = "Note" THEN 1
    ELSE IF item.kind = "Chord" THEN Len(item.pitches)
    ELSE 0

\* The items of a score in encounter order, each with its part and part index.
AllItems(sc) ==
    Concat([k \in 1..Len(sc) |->
              [j \in 1..Len(sc[k].items) |->
                  [i |-> k - 1, part |-> sc[k], item |-> sc[k].items[j]]]])

\* The rows the first n items produce together.
RECURSIVE RowsUpTo(_, _)
RowsUpTo(its, n) == IF n = 0 THEN 0 ELSE RowsUpTo(its, n - 1) + RowsOf(its[n].item)

\* C5: a chord of n pitches gives n consecutive rows that share the chord's
\* offset, duration, beat, part index and part name and carry its pitches in
\* order; a single note gives one row; a rest gives none.
C5_ChordExpansion ==
    (script = "musicxml" /\ Extracted) =>
        LET its == AllItems(score)
        IN  /\ Len(all_note_data) = RowsUpTo(its, Len(its))
            /\ \A n \in 1..Len(its) : \A j \in 1..RowsOf(its[n].item) :
                  LET row == all_note_data[RowsUpTo(its, n - 1) + j]
                      item == its[n].item
                  IN  /\ row.offset_beats = item.offset
                      /\ row.duration_beats = item.quarterLength
                      /\ row.beat = item.beat
                      /\ row.part_index = its[n].i
                      /\ row.part_name = its[n].part.partName
                      /\ row.pitch_simple = item.pitches[j].name
                      /\ row.octave = item.pitches[j].octave
                      /\ row.pitch_name = nameWithOctave(item.pitches[j])

\* A part with a rest and a part with a two-pitch chord: two rows, both the
\* chord's, with different pitches.
C5_Witness ==
    /\ script = "musicxml"
    /\ Extracted
    /\ Len(score) = 2
    /\ Len(score[1].items) = 1 /\ score[1].items[1].kind = "Rest"
    /\ Len(score[2].items) = 1 /\ score[2].items[1].kind = "Chord"
    /\ Len(score[2].items[1].pitches) = 2
    /\ Len(all_note_data) = 2
    /\ all_note_data[1].pitch_simple # all_note_data[2].pitch_simple
    /\ all_note_data[1].offset_beats = all_note_data[2].offset_beats

\* The candidate files of a script: for the MIDI script the names with ".mid"
\* in them (song.mid.bak is one), for the MusicXML script the names ending in
\* .musicxml, .xml or .mxl.
Candidates(s, dir) ==
    IF s = "midi"
    THEN {f \in dir : \E i \in 2..Len(f) : f[i] \in {"mid", "midi"}}
    ELSE {f \in dir : f[Len(f)] \in {"musicxml", "xml", "mxl"}}

PhaseOrder(s) ==
    IF s = "midi"
    THEN <<"discover", "parse", "grid", "extract", "save">>
    ELSE <<"discover", "parse", "extract", "save">>

IsPrefix(a, b) == Len(a) <= Len(b) /\ a = SubSeq(b, 1, Len(a))

ErrorReported == "An error occurred while loading the file" \in Range(console)

\* C7: the phases run once each in the order discover, parse, grid (MIDI
\* only), extract, save; save is entered only after a successful parse and
\* with at least one note; a parse failure ends the run with the error
\* reported and nothing written; no notes ends the run with nothing written
\* and no error.
C7_PhaseOrderAndSaveGuard ==
    /\ IsPrefix(phases, PhaseOrder(script))
    /\ "save" \in Range(phases) =>
          /\ "File loaded successfully" \in Range(console)
          /\ Extracted
          /\ all_note_data # <<>>
    /\ processed_dir # {} => "save" \in Range(phases)
    /\ raised = "parse" =>
          /\ pc = "done"
          /\ ErrorReported
          /\ phases = <<"discover", "parse">>
          /\ processed_dir = {}
    /\ (Extracted /\ all_note_data = <<>>) =>
          /\ pc = "done"
          /\ raised = None
          /\ ~ErrorReported
          /\ processed_dir = {}

\* A parsed file with no notes: the run is over, nothing saved, no error.
C7_Witness ==
    /\ pc = "done"
    /\ Extracted
    /\ all_note_data = <<>>
    /\ processed_dir = {}
    /\ raised = None

\* C8: when get_beats or get_downbeats fails after a successful parse, the
\* grid is empty rather than the run failed: the notes are still extracted,
\* each with measure index 0 and beat index 0, and the table is still saved.
C8_GridFailureDegrades ==
    (pc = "done" /\ raised \in {"get_beats", "get_downbeats"}) =>
        /\ beat_times = <<>>
        /\ measure_times = <<>>
        /\ Extracted
        /\ \A k \in 1..Len(all_note_data) :
              all_note_data[k].measure_name = 0 /\ all_note_data[k].beat_num = 0
        /\ all_note_data # <<>> => processed_dir # {}

\* Column names that hold a measure position, and a beat position.
MeasureColumns == {"measure", "measure_name", "measure_num", "measure_index",
                   "measure_number"}

BeatColumns == {"beat", "beat_num", "beat_index", "beat_number"}

\* The rows a run has emitted: the extracted records, and the rows it saved.
EmittedRows == Range(all_note_data) \cup UNION {Range(f.rows) : f \in processed_dir}

\* C9: all records of a run have the same columns, among them a measure
\* position and a beat position.
C9_UniformColumnsWithMetricPosition ==
    /\ \A r1 \in EmittedRows : \A r2 \in EmittedRows : DOMAIN r1 = DOMAIN r2
    /\ \A r \in EmittedRows :
          /\ DOMAIN r \cap MeasureColumns # {}
          /\ DOMAIN r \cap BeatColumns # {}

\* C10: for a MIDI pitch p in 0..127 the split is lossless: note_simple is
\* the pitch-class name of p mod 12, octave is (p div 12) - 1, and the two
\* put together again are note_name.
C10_SplitOfMidiPitch ==
    (pc # "split" /\ pitch # NoInt) =>
        LET p == CHOOSE n \in pitch : TRUE
        IN  /\ raised = None
            /\ note_simple = semis[(p % 12) + 1]
            /\ octave = Some((p \div 12) - 1)
            /\ note_simple \o Str((p \div 12) - 1) = note_name

=============================================================================
